---- MODULE Spec2Model ----
(***************************************************************************)
(* A state-machine model of hyperliquid_simple_bot.py: module start-up     *)
(* (credential loading, account creation, endpoint safety check) and the   *)
(* single trading cycle of main(): fetch mid price -> size / risk check -> *)
(* place limit order -> wait -> query status -> cancel.                    *)
(*                                                                         *)
(* Units.  A price string 'px' of the order book is an integer number of   *)
(* mills (1/1000 USD).  A Python float holding a price is an integer       *)
(* number of half-mills (1/2000 USD), so that (bid + ask) / 2 is exact.    *)
(* Sizes are in units of 0.0001 BTC.                                       *)
(* Optional values: None is the empty tuple, a present value x is <<x>>.   *)
(* Strings that are searched (URLs, keys) are tuples of tokens.            *)
(***************************************************************************)
EXTENDS Integers, Sequences, FiniteSets, TLC

VARIABLES
    pc,                  \* position of the process in the script
    TESTNET_PRIVATE_KEY, \* [set, s]: the environment variable HL_TESTNET_KEY
    TESTNET_RPC_URL,     \* the configured endpoint, a tuple of tokens
    ORDER_SIZE_BTC,      \* configured order size, units of 0.0001 BTC
    order_book,          \* the response of info.order_book in this cycle
    mid_price,           \* Optional float (half-mills)
    limit_buy_price,     \* Optional float (half-mills)
    placed_order_id,     \* Optional oid returned by place_limit_order
    order_status,        \* Optional status returned by get_order_status
    cancel_success,      \* Optional BOOLEAN returned by cancel_order
    calls,               \* names of the SDK operations invoked, in order
    order_args,          \* arguments of every exchange.order call
    query_args,          \* arguments of every info.query_order_by_oid call
    cancel_args,         \* arguments of every exchange.cancel call
    replies,             \* what each call of 'calls' gave back, in order
    place_response,      \* Optional response / exception of exchange.order
    venue,               \* oids of this cycle's orders resting at the venue
    branch,              \* the branch main took after placement ("" before)
    outcome              \* how the script ended ("" while running)

vars == << pc, TESTNET_PRIVATE_KEY, TESTNET_RPC_URL, ORDER_SIZE_BTC, order_book,
           mid_price, limit_buy_price, placed_order_id, order_status,
           cancel_success, calls, order_args, query_args, cancel_args,
           replies, place_response, venue, branch, outcome >>

None == << >>
Some(x) == << x >>

-----------------------------------------------------------------------------
(* Bounds of the model *)

\* most price levels per side of an order book snapshot
MaxLevels == 2
\* order ids the venue assigns are 0 .. MaxOid
MaxOid == 1

-----------------------------------------------------------------------------
(* Configuration (lines 14-39) *)

ASSET_SYMBOL == "BTC"
PRICE_OFFSET_USD == 10
TIME_IN_FORCE == "Gtc"
TESTNET_WALLET_ADDRESS == "0xWallet"

\* hyperliquid.utils.constants, as token tuples
MAINNET_API_URL == << "https://api.hyperliquid", ".xyz" >>
TESTNET_API_URL == << "https://api.hyperliquid", "-", "testnet", ".xyz" >>

\* values of HL_TESTNET_KEY: unset, empty, well-formed with and without the
\* 0x prefix, malformed with and without it
KeyChoices ==
    { [set |-> FALSE, s |-> << >>],
      [set |-> TRUE,  s |-> << >>],
      [set |-> TRUE,  s |-> << "0x", "hex64" >>],
      [set |-> TRUE,  s |-> << "hex64" >>],
      [set |-> TRUE,  s |-> << "0x", "junk" >>],
      [set |-> TRUE,  s |-> << "junk" >>] }

\* endpoints the configuration line 15 may be edited to
UrlChoices ==
    { TESTNET_API_URL,
      MAINNET_API_URL,
      << "http://localhost:3001" >>,
      << "https://api.hyperliquid", "-", "TestNet", ".xyz" >>,
      << "https://proxy/", "https://api.hyperliquid", ".xyz", "?net=", "testnet" >> }

\* order sizes the configuration line 35 may be edited to (default 1)
SizeChoices == { -1, 0, 1 }

-----------------------------------------------------------------------------
(* String helpers *)

\* Python: needle in hay
Contains(hay, needle) ==
    \E i \in 1 .. (Len(hay) - Len(needle) + 1) :
        SubSeq(hay, i, i + Len(needle) - 1) = needle

\* Python: str.lower(), token by token
LowerTok(t) ==
    IF t \in { "TestNet", "TESTNET", "Testnet" } THEN "testnet" ELSE t

Lower(s) == [ i \in 1 .. Len(s) |-> LowerTok(s[i]) ]

\* Python: s.startswith("0x")
StartsWith0x(s) == Len(s) >= 1 /\ s[1] = "0x"

\* line 20-21: ensure hex prefix
NormalizeKey(s) == IF StartsWith0x(s) THEN s ELSE << "0x" >> \o s

\* eth_account Account.from_key succeeds on a 32-byte hex key
FromKeyOk(s) == s = << "0x", "hex64" >>

-----------------------------------------------------------------------------
(* Start-up: lines 14-30 and 213-225 *)

Init ==
    /\ pc = "load_key"
    /\ TESTNET_PRIVATE_KEY \in KeyChoices
    /\ TESTNET_RPC_URL \in UrlChoices
    /\ ORDER_SIZE_BTC \in SizeChoices
    /\ order_book = None
    /\ mid_price = None
    /\ limit_buy_price = None
    /\ placed_order_id = None
    /\ order_status = None
    /\ cancel_success = None
    /\ calls = << >>
    /\ order_args = << >>
    /\ query_args = << >>
    /\ cancel_args = << >>
    /\ replies = << >>
    /\ place_response = None
    /\ venue = {}
    /\ branch = ""
    /\ outcome = ""

cycleVars == << order_book, mid_price, limit_buy_price, placed_order_id,
                order_status, cancel_success, calls, order_args, query_args,
                cancel_args, replies, place_response, venue, branch >>

\* Python: not TESTNET_PRIVATE_KEY
KeyMissing(k) == ~k.set \/ k.s = << >>

\* lines 14-21: read the key; a missing key raises ValueError at import
LoadKey ==
    /\ pc = "load_key"
    /\ IF KeyMissing(TESTNET_PRIVATE_KEY)
       THEN /\ pc' = "exited"
            /\ outcome' = "ValueError"
            /\ UNCHANGED TESTNET_PRIVATE_KEY
       ELSE /\ pc' = "load_account"
            /\ TESTNET_PRIVATE_KEY' =
                   [TESTNET_PRIVATE_KEY EXCEPT !.s = NormalizeKey(@)]
            /\ UNCHANGED outcome
    /\ UNCHANGED << TESTNET_RPC_URL, ORDER_SIZE_BTC >>
    /\ UNCHANGED cycleVars

\* LoadAccount without the exit() of line 30: the error is printed and the
\* script goes on
LoadAccount_NoExit ==
    /\ pc = "load_account"
    /\ pc' = "safety_check"
    /\ UNCHANGED outcome
    /\ UNCHANGED << TESTNET_PRIVATE_KEY, TESTNET_RPC_URL, ORDER_SIZE_BTC >>
    /\ UNCHANGED cycleVars

\* lines 24-30: Account.from_key; on failure print and exit()
LoadAccount ==
    /\ pc = "load_account"
    /\ IF FromKeyOk(TESTNET_PRIVATE_KEY.s)
       THEN pc' = "safety_check" /\ UNCHANGED outcome
       ELSE pc' = "exited" /\ outcome' = "BadKey"
    /\ UNCHANGED << TESTNET_PRIVATE_KEY, TESTNET_RPC_URL, ORDER_SIZE_BTC >>
    /\ UNCHANGED cycleVars

\* SafetyBranch whose warning branch goes on to main, as a warning alone
\* would
SafetyBranch_WarnAndRun(url) ==
    IF Contains(url, MAINNET_API_URL) THEN "mainnet" ELSE "main"

\* SafetyBranch with the two tests in the other order: an endpoint that
\* mentions testnet runs main
SafetyBranch_TestnetFirst(url) ==
    IF Contains(Lower(url), << "testnet" >>) THEN "main"
    ELSE IF Contains(url, MAINNET_API_URL) THEN "mainnet"
    ELSE "not_testnet"

\* lines 215-225: which branch of the final safety check is taken
SafetyBranch(url) ==
    IF Contains(url, MAINNET_API_URL) THEN "mainnet"
    ELSE IF ~Contains(Lower(url), << "testnet" >>) THEN "not_testnet"
    ELSE "main"

\* lines 213-225: main() runs only in the last branch
SafetyCheck ==
    /\ pc = "safety_check"
    /\ LET b == SafetyBranch(TESTNET_RPC_URL) IN
         IF b = "main"
         THEN pc' = "init_clients" /\ UNCHANGED outcome
         ELSE pc' = "exited" /\ outcome' = b
    /\ UNCHANGED << TESTNET_PRIVATE_KEY, TESTNET_RPC_URL, ORDER_SIZE_BTC >>
    /\ UNCHANGED cycleVars

configVars == << TESTNET_PRIVATE_KEY, TESTNET_RPC_URL, ORDER_SIZE_BTC >>

-----------------------------------------------------------------------------
(* main(): client construction, lines 149-157 *)

\* outcomes of the two constructors: both succeed, Info(...) raises,
\* Exchange(...) raises
InitOutcomes == { "ok", "info_raises", "exchange_raises" }

InitClients ==
    /\ pc = "init_clients"
    /\ \E o \in InitOutcomes :
         /\ calls' = calls \o ( IF o = "info_raises"
                                THEN << "Info" >>
                                ELSE << "Info", "Exchange" >> )
         /\ replies' = replies \o ( IF o = "info_raises" THEN << "raise" >>
                                    ELSE IF o = "exchange_raises"
                                         THEN << "ok", "raise" >>
                                    ELSE << "ok", "ok" >> )
         /\ IF o = "ok"
            THEN pc' = "get_mid_price" /\ UNCHANGED outcome
            ELSE pc' = "returned" /\ outcome' = "InitFailed"
    /\ UNCHANGED configVars
    /\ UNCHANGED << order_book, mid_price, limit_buy_price, placed_order_id,
                    order_status, cancel_success, order_args, query_args,
                    cancel_args, place_response, venue, branch >>

-----------------------------------------------------------------------------
(* get_market_mid_price, lines 46-63 *)

Px(n) == [num |-> TRUE, v |-> n]
\* a 'px' that float() rejects
BadPx == [num |-> FALSE, v |-> 0]

\* prices (mills) of a first level
PxChoices ==
    { Px(-5000), Px(0), Px(9990), Px(10010), Px(10013), Px(10020),
      Px(49990000), Px(50010000), BadPx }
\* prices of the deeper levels
DeepPxChoices == { Px(77000), BadPx }

\* one side of a book: up to MaxLevels levels, best first
Sides ==
    { << >> } \cup
    UNION { { << p >> \o d : p \in PxChoices, d \in [1 .. k -> DeepPxChoices] }
            : k \in 0 .. (MaxLevels - 1) }

\* what info.order_book may give: an exception, None, a non-dict value, a
\* dict without 'levels', or a dict whose 'levels' lists zero, one or two sides
BookResponses ==
    { [kind |-> k, levels |-> << >>] : k \in { "raise", "none", "nondict", "nolevels" } }
    \cup { [kind |-> "dict", levels |-> << >>] }
    \cup { [kind |-> "dict", levels |-> << b >>] : b \in Sides }
    \cup { [kind |-> "dict", levels |-> << b, a >>] : b \in Sides, a \in Sides }

\* Python: float(level['px']) of a mills string, as half-mills
Float(px) == 2 * px.v

\* get_market_mid_price reading the deepest level of each side instead of
\* the first
get_market_mid_price_DeepestLevel(resp) ==
    IF resp.kind # "dict" THEN None
    ELSE IF resp.levels = << >> \/ ~(Len(resp.levels) >= 2) THEN None
    ELSE LET bids == resp.levels[1]
             asks == resp.levels[2]
         IN  IF bids = << >> \/ asks = << >> THEN None
             ELSE IF ~bids[Len(bids)].num \/ ~asks[Len(asks)].num THEN None
             ELSE Some((Float(bids[Len(bids)]) + Float(asks[Len(asks)])) \div 2)

\* get_market_mid_price, but an empty side counts as price 0 instead of
\* failing
get_market_mid_price_EmptySideZero(resp) ==
    IF resp.kind # "dict" THEN None
    ELSE IF resp.levels = << >> \/ ~(Len(resp.levels) >= 2) THEN None
    ELSE LET bids == resp.levels[1]
             asks == resp.levels[2]
             first(side) == IF side = << >> THEN Px(0) ELSE side[1]
         IN  IF ~first(bids).num \/ ~first(asks).num THEN None
             ELSE Some((Float(first(bids)) + Float(first(asks))) \div 2)

get_market_mid_price(resp) ==
    IF resp.kind # "dict" THEN None
    ELSE IF resp.levels = << >> \/ ~(Len(resp.levels) >= 2) THEN None
    ELSE LET bids == resp.levels[1]
             asks == resp.levels[2]
         IN  IF bids = << >> \/ asks = << >> THEN None          \* IndexError
             ELSE IF ~bids[1].num \/ ~asks[1].num THEN None    \* ValueError
             ELSE LET best_bid == Float(bids[1])
                      best_ask == Float(asks[1])
                  IN  Some((best_bid + best_ask) \div 2)

\* lines 159-163
GetMidPrice ==
    /\ pc = "get_mid_price"
    /\ \E resp \in BookResponses :
         /\ order_book' = Some(resp)
         /\ calls' = Append(calls, "order_book")
         /\ replies' = Append(replies, resp.kind)
         /\ mid_price' = get_market_mid_price(resp)
         /\ IF mid_price' = None
            THEN pc' = "returned" /\ outcome' = "NoPrice"
            ELSE pc' = "risk_check" /\ UNCHANGED outcome
    /\ UNCHANGED configVars
    /\ UNCHANGED << limit_buy_price, placed_order_id, order_status,
                    cancel_success, order_args, query_args, cancel_args,
                    place_response, venue, branch >>

-----------------------------------------------------------------------------
(* limit price and risk check, lines 165-176 *)

\* Python: round(x, 2) of a float x (half-mills; one cent is 20 half-mills).
\* A value half-way between two cents goes to either neighbour: the binary
\* double nearest to it decides (round(0.015, 2) = 0.01, round(0.025, 2) = 0.03).
Round2(x) ==
    LET q == x \div 20
        r == x % 20
    IN  IF r < 10 THEN { 20 * q }
        ELSE IF r > 10 THEN { 20 * (q + 1) }
        ELSE { 20 * q, 20 * (q + 1) }

\* LimitBuyPrices with the offset added: a price above the mid price
LimitBuyPrices_AddOffset(mid) == Round2(mid + PRICE_OFFSET_USD * 2000)

\* line 167: the candidates of round(mid_price - PRICE_OFFSET_USD, 2)
LimitBuyPrices(mid) == Round2(mid - PRICE_OFFSET_USD * 2000)

\* RiskCheckVerdict with strict comparisons: a zero price or size passes
RiskCheckVerdict_Strict(limit, size) ==
    IF limit < 0 THEN "RiskPrice"
    ELSE IF size < 0 THEN "RiskSize"
    ELSE ""

\* lines 171-176: "" when both checks pass
RiskCheckVerdict(limit, size) ==
    IF limit <= 0 THEN "RiskPrice"
    ELSE IF size <= 0 THEN "RiskSize"
    ELSE ""

RiskCheck ==
    /\ pc = "risk_check"
    /\ \E limit \in LimitBuyPrices(mid_price[1]) :
         /\ limit_buy_price' = Some(limit)
         /\ LET v == RiskCheckVerdict(limit, ORDER_SIZE_BTC) IN
              IF v = ""
              THEN pc' = "place_order" /\ UNCHANGED outcome
              ELSE pc' = "returned" /\ outcome' = v
    /\ UNCHANGED configVars
    /\ UNCHANGED << order_book, mid_price, placed_order_id, order_status,
                    cancel_success, calls, replies, order_args, query_args,
                    cancel_args, place_response, venue, branch >>

-----------------------------------------------------------------------------
(* place_limit_order, lines 65-103 *)

Oids == 0 .. MaxOid

\* statuses[0] of an order response: a dict with the keys 'keys' (hasoid: the
\* inner dict has an 'oid', oid: its value, None for null), or a non-dict
RestingEntry(o) == [isdict |-> TRUE, keys |-> { "resting" }, hasoid |-> TRUE, oid |-> Some(o)]
RestingNullOid == [isdict |-> TRUE, keys |-> { "resting" }, hasoid |-> TRUE, oid |-> None]
RestingNoOid == [isdict |-> TRUE, keys |-> { "resting" }, hasoid |-> FALSE, oid |-> None]
FilledEntry(o) == [isdict |-> TRUE, keys |-> { "filled" }, hasoid |-> TRUE, oid |-> Some(o)]
ErrorEntry == [isdict |-> TRUE, keys |-> { "error" }, hasoid |-> FALSE, oid |-> None]
NonDictEntry == [isdict |-> FALSE, keys |-> {}, hasoid |-> FALSE, oid |-> None]

StatusEntries ==
    { RestingEntry(o) : o \in Oids } \cup { FilledEntry(o) : o \in Oids }
    \cup { RestingNullOid, RestingNoOid, ErrorEntry, NonDictEntry }

\* what exchange.order may give: an exception, None, a non-dict value, or a
\* dict with a 'status' and the list response.data.statuses
OrderResponses ==
    { [kind |-> k, status |-> "", statuses |-> << >>] : k \in { "raise", "none", "nondict" } }
    \cup { [kind |-> "dict", status |-> "err", statuses |-> << >>] }
    \cup { [kind |-> "dict", status |-> "ok", statuses |-> << >>] }
    \cup { [kind |-> "dict", status |-> "ok", statuses |-> << e >>] : e \in StatusEntries }

\* PlacementLog, but an immediate fill is taken for a placed order, so that
\* the oid of the 'filled' entry is returned
PlacementLog_FilledAsPlaced(resp) ==
    IF resp.kind = "raise" \/ resp.kind = "nondict" THEN "exception"
    ELSE IF resp.kind = "none" \/ resp.status # "ok" THEN "failed"
    ELSE IF resp.statuses # << >> /\ resp.statuses[1].isdict
            /\ resp.statuses[1].keys \cap { "resting", "filled" } # {}
         THEN IF resp.statuses[1].hasoid THEN "placed" ELSE "exception"
    ELSE "unclear"

\* the log line place_limit_order ends with (lines 88, 91, 95, 98, 102)
PlacementLog(resp) ==
    IF resp.kind = "raise" \/ resp.kind = "nondict" THEN "exception"
    ELSE IF resp.kind = "none" \/ resp.status # "ok" THEN "failed"
    ELSE IF resp.statuses # << >> /\ resp.statuses[1].isdict
            /\ "resting" \in resp.statuses[1].keys
         THEN IF resp.statuses[1].hasoid THEN "placed" ELSE "exception"
    ELSE IF resp.statuses # << >> /\ resp.statuses[1].isdict
            /\ "filled" \in resp.statuses[1].keys
         THEN "filled"
    ELSE "unclear"

\* place_limit_order with a default: a null oid of the resting entry is
\* replaced by 0
place_limit_order_DefaultZero(resp) ==
    IF PlacementLog(resp) = "placed"
    THEN IF resp.statuses[1].oid = None THEN Some(0) ELSE resp.statuses[1].oid
    ELSE None

\* the value place_limit_order returns: the oid or None
place_limit_order(resp) ==
    IF PlacementLog(resp) = "placed" THEN resp.statuses[1].oid ELSE None

\* the request main passes through place_limit_order to exchange.order
\* (lines 72-79, 168, 179)
OrderRequest(size, limit_px) ==
    [asset |-> ASSET_SYMBOL, is_buy |-> ("buy" = "buy"), sz |-> size,
     limit_px |-> limit_px, tif |-> TIME_IN_FORCE]

\* The venue after the call: a well-formed answer tells what happened to the
\* order; after an exception or an unreadable answer the order may rest or not.
VenueAfterOrder(resp) ==
    IF resp.kind = "dict" /\ resp.status = "err" THEN { {} }
    ELSE IF resp.kind = "dict" /\ resp.statuses # << >>
            /\ resp.statuses[1] \in { RestingEntry(o) : o \in Oids }
         THEN { { resp.statuses[1].oid[1] } }
    ELSE IF resp.kind = "dict" /\ resp.statuses # << >>
            /\ resp.statuses[1] \in { FilledEntry(o) : o \in Oids } \cup { ErrorEntry }
         THEN { {} }
    ELSE IF resp.kind = "dict" /\ resp.statuses # << >>
            /\ resp.statuses[1] \in { RestingNullOid, RestingNoOid }
         THEN { { o } : o \in Oids }
    ELSE { {} } \cup { { o } : o \in Oids }

\* lines 182, 197, 207: the branch main takes after placement
MainBranch(oid, limit) ==
    IF oid # None THEN "monitor"
    ELSE IF oid = None /\ limit # None THEN "open_orders"
    ELSE "failed"

\* PlaceOrder with a retry: a call that raised is made once more
PlaceOrder_RetryOnUnknown ==
    /\ pc = "place_order"
    /\ \E resp \in OrderResponses :
         /\ order_args' = Append(order_args,
                                 OrderRequest(ORDER_SIZE_BTC, limit_buy_price[1]))
         /\ calls' = Append(calls, "order")
         /\ replies' = Append(replies, resp.kind)
         /\ place_response' = Some(resp)
         /\ placed_order_id' = place_limit_order(resp)
         /\ venue' \in { venue \cup v : v \in VenueAfterOrder(resp) }
         /\ branch' = MainBranch(placed_order_id', limit_buy_price)
         /\ IF resp.kind = "raise" /\ order_args = << >>
            THEN pc' = "place_order" /\ UNCHANGED outcome
            ELSE IF branch' = "monitor" THEN pc' = "sleep" /\ UNCHANGED outcome
            ELSE IF branch' = "open_orders"
                 THEN pc' = "open_orders" /\ UNCHANGED outcome
            ELSE pc' = "returned" /\ outcome' = "Finished"
    /\ UNCHANGED configVars
    /\ UNCHANGED << order_book, mid_price, limit_buy_price, order_status,
                    cancel_success, query_args, cancel_args >>

\* lines 178-182, 197, 207
PlaceOrder ==
    /\ pc = "place_order"
    /\ \E resp \in OrderResponses :
         /\ order_args' = Append(order_args,
                                 OrderRequest(ORDER_SIZE_BTC, limit_buy_price[1]))
         /\ calls' = Append(calls, "order")
         /\ replies' = Append(replies, resp.kind)
         /\ place_response' = Some(resp)
         /\ placed_order_id' = place_limit_order(resp)
         /\ venue' \in VenueAfterOrder(resp)
         /\ branch' = MainBranch(placed_order_id', limit_buy_price)
         /\ IF branch' = "monitor" THEN pc' = "sleep" /\ UNCHANGED outcome
            ELSE IF branch' = "open_orders"
                 THEN pc' = "open_orders" /\ UNCHANGED outcome
            ELSE pc' = "returned" /\ outcome' = "Finished"
    /\ UNCHANGED configVars
    /\ UNCHANGED << order_book, mid_price, limit_buy_price, order_status,
                    cancel_success, query_args, cancel_args >>

-----------------------------------------------------------------------------
(* monitor and cancel, lines 183-195 *)

\* line 184: time.sleep(10) returns; meanwhile the venue may fill the order
Sleep ==
    /\ pc = "sleep"
    /\ pc' = "query"
    /\ venue' \in { venue, {} }
    /\ UNCHANGED configVars
    /\ UNCHANGED << order_book, mid_price, limit_buy_price, placed_order_id,
                    order_status, cancel_success, calls, replies, order_args,
                    query_args, cancel_args, place_response, branch, outcome >>

\* Interrupt with a handler around the wait (try/finally) that cancels the
\* order before the process ends
Interrupt_CancelsOnExit ==
    /\ pc = "sleep"
    /\ pc' = "exited"
    /\ outcome' = "KeyboardInterrupt"
    /\ calls' = Append(calls, "cancel")
    /\ replies' = Append(replies, "ok")
    /\ cancel_args' = Append(cancel_args, << ASSET_SYMBOL, placed_order_id[1] >>)
    /\ venue' = venue \ { placed_order_id[1] }
    /\ UNCHANGED configVars
    /\ UNCHANGED << order_book, mid_price, limit_buy_price, placed_order_id,
                    order_status, cancel_success, order_args, query_args,
                    place_response, branch >>

\* line 184: the process is interrupted during time.sleep(10); the
\* KeyboardInterrupt is no Exception and nothing catches it
Interrupt ==
    /\ pc = "sleep"
    /\ pc' = "exited"
    /\ outcome' = "KeyboardInterrupt"
    /\ UNCHANGED configVars
    /\ UNCHANGED << order_book, mid_price, limit_buy_price, placed_order_id,
                    order_status, cancel_success, calls, replies, order_args,
                    query_args, cancel_args, place_response, venue, branch >>

\* what info.query_order_by_oid may give: an exception, a falsy value, data
QueryResponses == { "raise", "none", "data" }

\* get_order_status, lines 105-123
get_order_status(resp) == IF resp = "data" THEN Some("data") ELSE None

\* QueryStatus with a retry: a query that raised is made once more
QueryStatus_RetryOnException ==
    /\ pc = "query"
    /\ \E resp \in { "raise", "none", "data" } :
         /\ calls' = Append(calls, "query_order_by_oid")
         /\ replies' = Append(replies, resp)
         /\ query_args' = Append(query_args,
                                 << TESTNET_WALLET_ADDRESS, placed_order_id[1] >>)
         /\ order_status' = IF resp = "data" THEN Some("data") ELSE None
         /\ pc' = IF resp = "raise" /\ query_args = << >> THEN "query" ELSE "cancel"
    /\ UNCHANGED outcome
    /\ UNCHANGED configVars
    /\ UNCHANGED << order_book, mid_price, limit_buy_price, placed_order_id,
                    cancel_success, order_args, cancel_args, place_response,
                    venue, branch >>

\* QueryStatus, but a missing status ends the cycle without cancelling
QueryStatus_SkipCancelWhenMissing ==
    /\ pc = "query"
    /\ \E resp \in { "raise", "none", "data" } :
         /\ calls' = Append(calls, "query_order_by_oid")
         /\ replies' = Append(replies, resp)
         /\ query_args' = Append(query_args,
                                 << TESTNET_WALLET_ADDRESS, placed_order_id[1] >>)
         /\ order_status' = IF resp = "data" THEN Some("data") ELSE None
    /\ IF order_status' = None
       THEN pc' = "returned" /\ outcome' = "Finished"
       ELSE pc' = "cancel" /\ UNCHANGED outcome
    /\ UNCHANGED configVars
    /\ UNCHANGED << order_book, mid_price, limit_buy_price, placed_order_id,
                    cancel_success, order_args, cancel_args, place_response,
                    venue, branch >>

\* line 187
QueryStatus ==
    /\ pc = "query"
    /\ \E resp \in QueryResponses :
         /\ calls' = Append(calls, "query_order_by_oid")
         /\ replies' = Append(replies, resp)
         /\ query_args' = Append(query_args,
                                 << TESTNET_WALLET_ADDRESS, placed_order_id[1] >>)
         /\ order_status' = get_order_status(resp)
    /\ pc' = "cancel"
    /\ UNCHANGED outcome
    /\ UNCHANGED configVars
    /\ UNCHANGED << order_book, mid_price, limit_buy_price, placed_order_id,
                    cancel_success, order_args, cancel_args, place_response,
                    venue, branch >>

\* what exchange.cancel may give: an exception, None, a non-dict value, a
\* dict with status 'ok' or another status
CancelResponses == { "raise", "none", "nondict", "ok", "err" }

\* cancel_order, lines 125-143
cancel_order(resp) == resp = "ok"

\* the venue after exchange.cancel(asset, oid)
VenueAfterCancel(resp, oid) ==
    IF resp = "ok" THEN { venue \ { oid } }
    ELSE IF resp = "err" THEN { venue }
    ELSE { venue, venue \ { oid } }

\* CancelOrder without the try/except of cancel_order: an exception of
\* exchange.cancel leaves main
CancelOrder_Propagates ==
    /\ pc = "cancel"
    /\ \E resp \in { "raise", "none", "nondict", "ok", "err" } :
         /\ calls' = Append(calls, "cancel")
         /\ replies' = Append(replies, resp)
         /\ cancel_args' = Append(cancel_args,
                                  << ASSET_SYMBOL, placed_order_id[1] >>)
         /\ cancel_success' = IF resp = "raise" THEN None ELSE Some(resp = "ok")
         /\ venue' \in { venue, venue \ { placed_order_id[1] } }
         /\ IF resp = "raise"
            THEN pc' = "exited" /\ outcome' = "Exception"
            ELSE pc' = "returned" /\ outcome' = "Finished"
    /\ UNCHANGED configVars
    /\ UNCHANGED << order_book, mid_price, limit_buy_price, placed_order_id,
                    order_status, order_args, query_args, place_response,
                    branch >>

\* CancelOrder with a retry: a cancellation that was not confirmed is
\* attempted once more
CancelOrder_RetryOnFailure ==
    /\ pc = "cancel"
    /\ \E resp \in { "raise", "none", "nondict", "ok", "err" } :
         /\ calls' = Append(calls, "cancel")
         /\ replies' = Append(replies, resp)
         /\ cancel_args' = Append(cancel_args,
                                  << ASSET_SYMBOL, placed_order_id[1] >>)
         /\ cancel_success' = Some(resp = "ok")
         /\ venue' \in { venue, venue \ { placed_order_id[1] } }
         /\ IF resp # "ok" /\ cancel_args = << >>
            THEN pc' = "cancel" /\ UNCHANGED outcome
            ELSE pc' = "returned" /\ outcome' = "Finished"
    /\ UNCHANGED configVars
    /\ UNCHANGED << order_book, mid_price, limit_buy_price, placed_order_id,
                    order_status, order_args, query_args, place_response,
                    branch >>

\* lines 191-195, 210
CancelOrder ==
    /\ pc = "cancel"
    /\ \E resp \in CancelResponses :
         /\ calls' = Append(calls, "cancel")
         /\ replies' = Append(replies, resp)
         /\ cancel_args' = Append(cancel_args,
                                  << ASSET_SYMBOL, placed_order_id[1] >>)
         /\ cancel_success' = Some(cancel_order(resp))
         /\ venue' \in VenueAfterCancel(resp, placed_order_id[1])
    /\ pc' = "returned"
    /\ outcome' = "Finished"
    /\ UNCHANGED configVars
    /\ UNCHANGED << order_book, mid_price, limit_buy_price, placed_order_id,
                    order_status, order_args, query_args, place_response,
                    branch >>

-----------------------------------------------------------------------------
(* fallback after a placement without oid, lines 197-205, 210 *)

OpenOrdersResponses == { "raise", "list" }

\* OpenOrders without the try/except of lines 200-205: an exception of
\* info.open_orders leaves main
OpenOrders_Propagates ==
    /\ pc = "open_orders"
    /\ \E resp \in { "raise", "list" } :
         /\ calls' = Append(calls, "open_orders")
         /\ replies' = Append(replies, resp)
         /\ IF resp = "raise"
            THEN pc' = "exited" /\ outcome' = "Exception"
            ELSE pc' = "returned" /\ outcome' = "Finished"
    /\ UNCHANGED configVars
    /\ UNCHANGED << order_book, mid_price, limit_buy_price, placed_order_id,
                    order_status, cancel_success, order_args, query_args,
                    cancel_args, place_response, venue, branch >>

OpenOrders ==
    /\ pc = "open_orders"
    /\ \E resp \in OpenOrdersResponses :
         /\ calls' = Append(calls, "open_orders")
         /\ replies' = Append(replies, resp)
    /\ pc' = "returned"
    /\ outcome' = "Finished"
    /\ UNCHANGED configVars
    /\ UNCHANGED << order_book, mid_price, limit_buy_price, placed_order_id,
                    order_status, cancel_success, order_args, query_args,
                    cancel_args, place_response, venue, branch >>

-----------------------------------------------------------------------------

Next ==
    \/ LoadKey
    \/ LoadAccount
    \/ SafetyCheck
    \/ InitClients
    \/ GetMidPrice
    \/ RiskCheck
    \/ PlaceOrder
    \/ Sleep
    \/ Interrupt
    \/ QueryStatus
    \/ CancelOrder
    \/ OpenOrders

Spec == Init /\ [][Next]_vars

\* the script is one sequential process: it always takes its next step
FairSpec == Spec /\ WF_vars(Next)

\* the script when nothing interrupts the wait of line 184
NextUninterrupted ==
    \/ LoadKey
    \/ LoadAccount
    \/ SafetyCheck
    \/ InitClients
    \/ GetMidPrice
    \/ RiskCheck
    \/ PlaceOrder
    \/ Sleep
    \/ QueryStatus
    \/ CancelOrder
    \/ OpenOrders

\* every call returns or raises and the wait elapses
UninterruptedSpec ==
    Init /\ [][NextUninterrupted]_vars /\ WF_vars(NextUninterrupted)

-----------------------------------------------------------------------------
(* Properties *)

IsPrefixOf(s, t) == Len(s) <= Len(t) /\ s = SubSeq(t, 1, Len(s))

Count(seq, x) == Cardinality({ i \in 1 .. Len(seq) : seq[i] = x })

\* the calls made after the (first) exchange.order call
CallsAfterOrder ==
    IF Count(calls, "order") = 0 THEN << >>
    ELSE LET i == CHOOSE j \in 1 .. Len(calls) :
                      calls[j] = "order" /\ \A k \in 1 .. (j - 1) : calls[k] # "order"
         IN  SubSeq(calls, i + 1, Len(calls))

\* the reply to the call op (the first such call)
ReplyTo(op) ==
    LET i == CHOOSE j \in 1 .. Len(calls) : calls[j] = op IN replies[i]

\* C1: when place_limit_order returned an oid, the calls that follow the
\* placement are one query_order_by_oid and then one cancel, whatever the query
\* gave: never anything else at any moment, and exactly these two once the
\* process is past the cancel step (unless it was interrupted in the wait).
C1_QueryThenCancel ==
    placed_order_id # None =>
        /\ Count(calls, "order") = 1
        /\ IsPrefixOf(CallsAfterOrder, << "query_order_by_oid", "cancel" >>)
        /\ (pc = "query" => CallsAfterOrder = << >>)
        /\ (pc = "cancel" => CallsAfterOrder = << "query_order_by_oid" >>)
        /\ (pc \in { "returned", "exited" } /\ outcome # "KeyboardInterrupt"
              => CallsAfterOrder = << "query_order_by_oid", "cancel" >>)

\* C1 witness: a finished cycle with an oid whose status query raised
C1_Witness ==
    /\ pc = "returned"
    /\ placed_order_id # None
    /\ CallsAfterOrder = << "query_order_by_oid", "cancel" >>
    /\ ReplyTo("query_order_by_oid") = "raise"

TradingCalls == { "order", "query_order_by_oid", "cancel", "open_orders" }

NoTradingCall == \A i \in 1 .. Len(calls) : calls[i] \notin TradingCalls

\* C2: once the limit price is computed, a price <= 0 or a size <= 0 ends the
\* cycle in the risk check with no order, query, cancel or open-orders call;
\* a mid price <= the offset always gives such a price; and with a size <= 0
\* no order is ever placed.
C2_RiskCheckBlocksOrder ==
    /\ (limit_buy_price # None /\ (limit_buy_price[1] <= 0 \/ ORDER_SIZE_BTC <= 0)
          => /\ pc = "returned"
             /\ outcome \in { "RiskPrice", "RiskSize" }
             /\ NoTradingCall)
    /\ (mid_price # None /\ mid_price[1] <= PRICE_OFFSET_USD * 2000
          => /\ NoTradingCall
             /\ (limit_buy_price # None => outcome = "RiskPrice"))
    /\ (ORDER_SIZE_BTC <= 0 => NoTradingCall)

\* C2 witness: a mid price above the offset whose limit price rounds to zero
C2_Witness ==
    /\ pc = "returned"
    /\ outcome = "RiskPrice"
    /\ mid_price # None
    /\ mid_price[1] > PRICE_OFFSET_USD * 2000
    /\ limit_buy_price = Some(0)

\* the order book call failed in one of the ways of C3
BookFailed(resp) ==
    \/ resp.kind \in { "raise", "none" }
    \/ /\ resp.kind = "dict"
       /\ Len(resp.levels) = 2
       /\ (resp.levels[1] = << >> \/ resp.levels[2] = << >>)

\* C3: when info.order_book raises, gives nothing, or gives a book with an
\* empty bid or ask side, get_market_mid_price gives None, main returns with
\* no price, and exchange.order is never called.
C3_NoBookNoOrder ==
    order_book # None /\ BookFailed(order_book[1]) =>
        /\ mid_price = None
        /\ pc = "returned"
        /\ outcome = "NoPrice"
        /\ Count(calls, "order") = 0

\* C3 witness: a book with bids and an empty ask side
C3_Witness ==
    /\ order_book # None
    /\ order_book[1].kind = "dict"
    /\ Len(order_book[1].levels) = 2
    /\ order_book[1].levels[1] # << >>
    /\ order_book[1].levels[1][1] = Px(50010000)
    /\ order_book[1].levels[2] = << >>
    /\ pc = "returned"

\* the placement failed in one of the ways of C4: the call raised, or the
\* answer was a rejection (a status other than 'ok')
PlacementFailed(resp) ==
    \/ resp.kind = "raise"
    \/ resp.kind = "dict" /\ resp.status # "ok"

\* C4: after a cycle that ended on a missing price, a failed risk check or a
\* failed placement, no order of this cycle rests at the venue.
C4_NoOrderLeftResting ==
    ( /\ pc = "returned"
      /\ \/ outcome \in { "NoPrice", "RiskPrice", "RiskSize" }
         \/ place_response # None /\ PlacementFailed(place_response[1]) )
    => venue = {}

\* the placement reported an immediate fill
ImmediateFill(resp) ==
    /\ resp.kind = "dict"
    /\ resp.status = "ok"
    /\ resp.statuses # << >>
    /\ resp.statuses[1].isdict
    /\ "filled" \in resp.statuses[1].keys

\* C5: after a placement answered 'filled' there is no oid, and neither
\* cancel nor query_order_by_oid is ever called.
C5_FilledNeverCancelled ==
    place_response # None /\ ImmediateFill(place_response[1]) =>
        /\ placed_order_id = None
        /\ Count(calls, "cancel") = 0
        /\ Count(calls, "query_order_by_oid") = 0
        /\ pc \in { "open_orders", "returned" }

\* C5 witness: a finished cycle whose placement was filled at once
C5_Witness ==
    /\ pc = "returned"
    /\ place_response # None
    /\ ImmediateFill(place_response[1])
    /\ place_response[1].statuses[1].oid = Some(0)

\* some call of the cycle failed: it raised, gave nothing or a value of the
\* wrong shape, or answered with a rejection
CallFailed ==
    \/ \E i \in 1 .. Len(replies) :
           replies[i] \in { "raise", "none", "nondict", "nolevels", "err" }
    \/ order_book # None /\ get_market_mid_price(order_book[1]) = None
    \/ place_response # None /\ PlacementLog(place_response[1]) \notin { "placed", "filled" }

\* C6: once a call of the SDK has failed (client construction, order_book,
\* order, query_order_by_oid, cancel, open_orders), the process never leaves
\* main by an exception, and main returns.
C6_FailuresCaught ==
    /\ [](CallFailed => pc # "exited")
    /\ (CallFailed ~> pc = "returned")

\* C6 witness: a finished cycle whose cancel call raised
C6_Witness ==
    /\ pc = "returned"
    /\ Count(calls, "cancel") = 1
    /\ ReplyTo("cancel") = "raise"

\* the key is present and a 32-byte hex string, with or without 0x
KeyWellFormed(k) == k.set /\ k.s \in { << "0x", "hex64" >>, << "hex64" >> }

\* C7: with a missing or malformed key the script ends during start-up: no
\* client is constructed and no SDK call is made.
C7_BadKeyNoClient ==
    ~KeyWellFormed(TESTNET_PRIVATE_KEY) =>
        /\ calls = << >>
        /\ pc \in { "load_key", "load_account", "exited" }
        /\ (pc = "exited" => outcome \in { "ValueError", "BadKey" })

\* C7 witness: a malformed key made the script exit
C7_Witness ==
    /\ pc = "exited"
    /\ outcome = "BadKey"
    /\ TESTNET_PRIVATE_KEY.s = << "0x", "junk" >>

\* C8: when the configured endpoint contains the mainnet URL, main is never
\* entered and no SDK call is made.
C8_MainnetRefused ==
    Contains(TESTNET_RPC_URL, MAINNET_API_URL) =>
        /\ calls = << >>
        /\ pc \in { "load_key", "load_account", "safety_check", "exited" }
        /\ (pc = "exited" => outcome \in { "ValueError", "BadKey", "mainnet" })

\* C8 witness: an endpoint that contains the mainnet URL and mentions
\* testnet was refused
C8_Witness ==
    /\ pc = "exited"
    /\ outcome = "mainnet"
    /\ Contains(TESTNET_RPC_URL, << "testnet" >>)

\* y is x rounded to two decimals: a whole number of cents (20 half-mills)
\* at most half a cent from x
IsRoundedToCents(y, x) == y % 20 = 0 /\ y - x <= 10 /\ x - y <= 10

\* the book has first levels bid 49990 and ask 50010
ExampleBook(resp) ==
    /\ resp.kind = "dict"
    /\ Len(resp.levels) = 2
    /\ resp.levels[1] # << >> /\ resp.levels[1][1] = Px(49990000)
    /\ resp.levels[2] # << >> /\ resp.levels[2][1] = Px(50010000)

\* C9: every exchange.order call asks for a buy of the configured size of BTC,
\* Gtc, at round(mid_price - offset, 2) for the mid price fetched in this
\* cycle; bid 49990, ask 50010, size 0.0001 gives a buy at 49990.00.
C9_OrderRequestExact ==
    /\ \A i \in 1 .. Len(order_args) :
         /\ order_args[i].asset = "BTC"
         /\ order_args[i].is_buy = TRUE
         /\ order_args[i].sz = ORDER_SIZE_BTC
         /\ order_args[i].tif = "Gtc"
         /\ mid_price # None
         /\ IsRoundedToCents(order_args[i].limit_px,
                             mid_price[1] - PRICE_OFFSET_USD * 2000)
    /\ (order_book # None /\ ExampleBook(order_book[1]) /\ order_args # << >>
          => order_args[1] = [asset |-> "BTC", is_buy |-> TRUE, sz |-> 1,
                              limit_px |-> 2 * 49990000, tif |-> "Gtc"])

\* C9 witness: the order of the example was placed
C9_Witness ==
    /\ order_book # None
    /\ ExampleBook(order_book[1])
    /\ Len(order_args) = 1

\* a book with a first level on each side whose prices parse, bid below ask
ValidBook(resp) ==
    /\ resp.kind = "dict"
    /\ Len(resp.levels) = 2
    /\ resp.levels[1] # << >> /\ resp.levels[1][1].num
    /\ resp.levels[2] # << >> /\ resp.levels[2][1].num
    /\ resp.levels[1][1].v < resp.levels[2][1].v

\* C10: for a book with best bid B below best ask A the mid price is exactly
\* (B + A) / 2 (in half-mills: B + A), whatever the deeper levels hold.
C10_MidIsAverage ==
    order_book # None /\ ValidBook(order_book[1]) =>
        mid_price = Some(order_book[1].levels[1][1].v + order_book[1].levels[2][1].v)

\* C10 witness: a mid price from a book with two levels on each side
C10_Witness ==
    /\ order_book # None
    /\ ValidBook(order_book[1])
    /\ Len(order_book[1].levels[1]) = 2
    /\ Len(order_book[1].levels[2]) = 2
    /\ order_book[1].levels[1][2].num
    /\ mid_price # None

\* C11: after a rejected or raising placement main takes its 'Order placement
\* failed' branch, with no oid and without listing the open orders.
C11_RejectedEndsFailed ==
    ( /\ place_response # None
      /\ PlacementFailed(place_response[1])
      /\ pc = "returned" )
    => /\ placed_order_id = None
       /\ branch = "failed"
       /\ Count(calls, "open_orders") = 0

\* the placement was accepted (status 'ok') but its first status is not a
\* resting entry with an oid: an immediate fill or an unrecognised shape
OkWithoutHandle(resp) ==
    /\ resp.kind = "dict"
    /\ resp.status = "ok"
    /\ (resp.statuses = << >>
        \/ resp.statuses[1] \notin { RestingEntry(o) : o \in Oids })

\* C12: after an accepted placement without a resting oid, main calls
\* info.open_orders exactly once and nothing else: no cancel, no query, no
\* second order; and whatever open_orders gives, main returns normally.
C12_FallbackListsOnly ==
    place_response # None /\ OkWithoutHandle(place_response[1]) =>
        /\ placed_order_id = None
        /\ pc \in { "open_orders", "returned" }
        /\ (pc = "open_orders" => CallsAfterOrder = << >>)
        /\ (pc = "returned" => /\ CallsAfterOrder = << "open_orders" >>
                               /\ outcome = "Finished")
        /\ Count(calls, "order") = 1

\* C12 witness: after an immediate fill the open-orders call raised and
\* main returned
C12_Witness ==
    /\ place_response # None
    /\ ImmediateFill(place_response[1])
    /\ pc = "returned"
    /\ outcome = "Finished"
    /\ ReplyTo("open_orders") = "raise"

\* C13: exchange.order is called at most once in a cycle; after a call whose
\* outcome is unknown no further order call follows.
C13_OrderAtMostOnce ==
    /\ Count(calls, "order") <= 1
    /\ Len(order_args) <= 1

\* C13 witness: a finished cycle whose only order call raised
C13_Witness ==
    /\ pc = "returned"
    /\ Count(calls, "order") = 1
    /\ ReplyTo("order") = "raise"

\* C14: exchange.cancel is called at most once in a cycle; when the
\* cancellation is not confirmed, the cycle ends (the warning of line 195)
\* with that single attempt.
C14_CancelAtMostOnce ==
    /\ Count(calls, "cancel") <= 1
    /\ Len(cancel_args) <= 1
    /\ (cancel_success = Some(FALSE)
          => /\ pc = "returned"
             /\ outcome = "Finished"
             /\ Count(calls, "cancel") = 1)

\* C14 witness: a cycle that ended after a rejected cancellation
C14_Witness ==
    /\ pc = "returned"
    /\ cancel_success = Some(FALSE)
    /\ ReplyTo("cancel") = "err"

\* C15: every query_order_by_oid and cancel call carries the oid of the
\* 'resting' status of this cycle's order response, the query for the wallet
\* address and the cancel for the asset of the order; no other oid is used.
C15_OnlyOwnOid ==
    (query_args # << >> \/ cancel_args # << >>) =>
        /\ place_response # None
        /\ place_response[1].kind = "dict"
        /\ place_response[1].status = "ok"
        /\ place_response[1].statuses # << >>
        /\ "resting" \in place_response[1].statuses[1].keys
        /\ place_response[1].statuses[1].oid # None
        /\ \A i \in 1 .. Len(query_args) :
               query_args[i] = << TESTNET_WALLET_ADDRESS,
                                  place_response[1].statuses[1].oid[1] >>
        /\ \A i \in 1 .. Len(cancel_args) :
               cancel_args[i] = << order_args[1].asset,
                                   place_response[1].statuses[1].oid[1] >>

\* C15 witness: the order that rested with oid 1 was queried and cancelled
C15_Witness ==
    /\ place_response # None
    /\ place_response[1].statuses = << RestingEntry(1) >>
    /\ query_args = << << TESTNET_WALLET_ADDRESS, 1 >> >>
    /\ cancel_args = << << "BTC", 1 >> >>

\* C16: a mid price that get_market_mid_price returns is strictly positive,
\* whatever prices the snapshot holds.
C16_MidPricePositive ==
    mid_price # None => mid_price[1] > 0

\* the positions of main
CyclePcs ==
    { "init_clients", "get_mid_price", "risk_check", "place_order", "sleep",
      "open_orders", "query", "cancel", "returned" }

\* the state of the cycle's chain a position of main belongs to
ChainState(p) ==
    CASE p \in { "init_clients", "get_mid_price" } -> "Idle"
      [] p = "risk_check" -> "PriceFetched"
      [] p = "place_order" -> "Sized"
      [] p \in { "sleep", "query", "open_orders" } -> "Placed"
      [] p = "cancel" -> "Queried"
      [] p = "returned" -> "Terminated"
      [] OTHER -> "Outside"

\* the transitions of the chain; every state may also end the cycle
ChainEdges ==
    { << "Idle", "PriceFetched" >>, << "PriceFetched", "Sized" >>,
      << "Sized", "Placed" >>, << "Placed", "Queried" >>,
      << "Queried", "Terminated" >> }
    \cup { << c, "Terminated" >> : c \in { "Idle", "PriceFetched", "Sized", "Placed" } }

\* the positions of the script in program order
PcOrder ==
    << "load_key", "load_account", "safety_check", "init_clients",
       "get_mid_price", "risk_check", "place_order", "sleep", "open_orders",
       "query", "cancel", "returned", "exited" >>

PcIndex(p) == CHOOSE i \in 1 .. Len(PcOrder) : PcOrder[i] = p

\* C17: when every call returns or raises and the wait elapses, a cycle that
\* starts reaches the end of main; each step moves forward in the program (no
\* position is taken twice) and, between states of the chain, only along
\* Idle -> PriceFetched -> Sized -> Placed -> (Queried) -> Terminated.
C17_CycleTerminates ==
    /\ [][ /\ PcIndex(pc') > PcIndex(pc)
           /\ (pc \in CyclePcs
                 => /\ pc' \in CyclePcs
                    /\ \/ ChainState(pc') = ChainState(pc)
                       \/ << ChainState(pc), ChainState(pc') >> \in ChainEdges) ]_vars
    /\ (pc = "init_clients" ~> pc = "returned")

\* C17 witness: a cycle that went through every state of the chain
C17_Witness ==
    /\ pc = "returned"
    /\ calls = << "Info", "Exchange", "order_book", "order",
                  "query_order_by_oid", "cancel" >>

\* C18: once the process is interrupted during the wait, it has ended with
\* the oid in hand and without any cancel call; nothing cancels the order.
C18_InterruptLeavesOrder ==
    outcome = "KeyboardInterrupt" =>
        /\ pc = "exited"
        /\ placed_order_id # None
        /\ Count(calls, "cancel") = 0
        /\ cancel_args = << >>
        /\ CallsAfterOrder = << >>

\* C18 witness: the process has ended in the wait and its order still rests
\* at the venue
C18_Witness ==
    /\ pc = "exited"
    /\ outcome = "KeyboardInterrupt"
    /\ placed_order_id # None
    /\ venue = { placed_order_id[1] }

\* the endpoint mentions testnet in any letter case
MentionsTestnet(url) ==
    \E i \in 1 .. Len(url) : url[i] \in { "testnet", "TestNet", "TESTNET", "Testnet" }

\* C19: main is entered, and any SDK call made, only for an endpoint that
\* does not contain the mainnet URL and mentions testnet; an endpoint that
\* only lacks testnet ends in the warning branch without running main.
C19_MainOnlyOnTestnet ==
    /\ (pc \in CyclePcs \/ calls # << >>
          => /\ ~Contains(TESTNET_RPC_URL, MAINNET_API_URL)
             /\ MentionsTestnet(TESTNET_RPC_URL))
    /\ (pc = "exited" /\ outcome = "not_testnet"
          => /\ ~MentionsTestnet(TESTNET_RPC_URL)
             /\ ~Contains(TESTNET_RPC_URL, MAINNET_API_URL)
             /\ calls = << >>)
    /\ (KeyWellFormed(TESTNET_PRIVATE_KEY) /\ pc = "exited"
        /\ ~MentionsTestnet(TESTNET_RPC_URL)
        /\ ~Contains(TESTNET_RPC_URL, MAINNET_API_URL)
          => outcome = "not_testnet")

\* C19 witness: an endpoint without testnet ended in the warning branch
C19_Witness ==
    /\ pc = "exited"
    /\ outcome = "not_testnet"
    /\ TESTNET_RPC_URL = << "http://localhost:3001" >>
====
